---- MODULE Spec2Model ----
(***************************************************************************)
(* Model of sys/meson.py, the meson build driver of radare2.               *)
(*                                                                         *)
(* Text is modelled as a sequence of tokens.  Every token stands for one   *)
(* fixed string of the project files:                                      *)
(*   "S"  = '<AdditionalDependencies>'      (start marker of vs_dedup)     *)
(*   ";"  = ';'                             (list separator)               *)
(*   "P"  = '%(AdditionalDependencies)'     (end marker = ";" then "P")    *)
(*   "O"  = '<PlatformToolset>'             "C" = '</PlatformToolset>'     *)
(*   "x"  = '_xp'                           "\n" = line break              *)
(*   "v", "w" = two characters that occur in none of the strings above     *)
(*   "J"  = what replace('', '_xp') leaves of one of the markers above     *)
(* No marker is a prefix of another one and a marker can only start where  *)
(* a token starts, so find, replace, split and the comparison of str       *)
(* values act on the token sequence as they do on the characters.          *)
(***************************************************************************)
EXTENDS Integers, Sequences, FiniteSets, TLC

VARIABLES
    pc,        \* position of the run in main()/build()/win_dist()
    args,      \* the parsed command line (argparse namespace)
    os_name,   \* os.name: "nt" or "posix"
    dirs,      \* directories that exist, as path tuples
    files,     \* content of the *.vcxproj files under the build directory
    calls,     \* every tool / post-processing / staging call made so far
    status,    \* exit status of the process, -1 while it runs
    ret,       \* exit status of the last external tool, -1 before any
    missing,   \* copytree sources that are absent from the checkout
    staged,    \* files that copy() created under a name of its own
    step,      \* index of the next staging call of win_dist
    fresh,     \* whether the build directory was absent when the run began
    runs       \* number of post-processing passes applied (library use)

vars == <<pc, args, os_name, dirs, files, calls, status, ret, missing, staged,
          step, fresh, runs>>

\* ------------------------------------------------------------------ bounds
MaxLen == 7

MaxXpLen == 6

MaxRuns == 2

\* ------------------------------------------------------------------ text
Min(S) == CHOOSE m \in S : \A o \in S : m <= o

Max(S) == CHOOSE m \in S : \A o \in S : m >= o

\* All token sequences over A of length at most n.
SeqsUpTo(A, n) == UNION {[1..k -> A] : k \in 0..n}

\* data[i:j] with 0-based, end-exclusive indices.
Slice(data, i, j) == SubSeq(data, i + 1, j)

\* str.find(pat, from): lowest 0-based index >= from where pat occurs, else -1.
Find(data, pat, from) ==
    LET hits == {i \in from..(Len(data) - Len(pat)) :
                    Slice(data, i, i + Len(pat)) = pat}
    IN  IF hits = {} THEN -1 ELSE Min(hits)

\* The rank of a token in the order of str: by first character, and by the
\* second one ('/' < 'A' < 'P') for "C", "S" and "O", which start with '<'.
Ord(t) ==
    CASE t = "\n" -> 10
      [] t = "P"  -> 37
      [] t = ";"  -> 59
      [] t = "C"  -> 60
      [] t = "S"  -> 61
      [] t = "O"  -> 62
      [] t = "x"  -> 95
      [] t = "J"  -> 96
      [] t = "v"  -> 118
      [] t = "w"  -> 119

\* The < of str: lexicographic, a proper prefix is smaller.
RECURSIVE LexLess(_, _)
LexLess(a, b) ==
    IF a = <<>> THEN b # <<>>
    ELSE IF b = <<>> THEN FALSE
    ELSE IF Head(a) = Head(b) THEN LexLess(Tail(a), Tail(b))
    ELSE Ord(Head(a)) < Ord(Head(b))

\* str.split(';'): always at least one entry, empty entries kept.
RECURSIVE Split(_)
Split(s) ==
    LET i == Find(s, <<";">>, 0)
    IN  IF i < 0 THEN <<s>>
        ELSE <<Slice(s, 0, i)>> \o Split(Slice(s, i + 1, Len(s)))

\* ';'.join(entries)
RECURSIVE Join(_)
Join(entries) ==
    IF entries = <<>> THEN <<>>
    ELSE IF Len(entries) = 1 THEN entries[1]
    ELSE entries[1] \o <<";">> \o Join(Tail(entries))

\* sorted(libs) of a set of str.
RECURSIVE Sorted(_)
Sorted(libs) ==
    IF libs = {} THEN <<>>
    ELSE LET m == CHOOSE e \in libs : \A o \in libs \ {e} : LexLess(e, o)
         IN  <<m>> \o Sorted(libs \ {m})

\* sorted(entries) of a list of str: duplicates stay.
RECURSIVE SortedList(_)
SortedList(entries) ==
    IF entries = <<>> THEN <<>>
    ELSE LET i == CHOOSE k \in 1..Len(entries) :
                      \A o \in 1..Len(entries) : ~LexLess(entries[o], entries[k])
         IN  <<entries[i]>>
             \o SortedList(Slice(entries, 0, i - 1) \o Slice(entries, i, Len(entries)))

SetOf(entries) == {entries[i] : i \in 1..Len(entries)}

\* What replace('', new) leaves of one token: new goes in front of every
\* character, so a one-character token survives and a marker does not.
Shred(t, new) == IF t \in {"v", "w", ";", "\n"} THEN new \o <<t>> ELSE <<"J">>

RECURSIVE ShredAll(_, _)
ShredAll(c, new) ==
    IF c = <<>> THEN new ELSE Shred(Head(c), new) \o ShredAll(Tail(c), new)

\* str.replace(old, new): leftmost occurrences, not overlapping.
RECURSIVE Replace(_, _, _)
Replace(c, old, new) ==
    IF old = <<>> THEN ShredAll(c, new)
    ELSE LET i == Find(c, old, 0)
         IN  IF i < 0 THEN c
             ELSE Slice(c, 0, i) \o new
                  \o Replace(Slice(c, i + Len(old), Len(c)), old, new)

\* ----------------------------------------------------- vs_dedup, xp_compat
start == <<"S">>

end == <<";", "P">>

\* The rewrite of one project file with the tail written from data[idx2+1:]
\* on, which drops the ';' of the end marker.
vs_dedup_file_tail(data) ==
    LET idx0 == Find(data, start, 0)
        idx  == idx0 + Len(start)
        idx2 == Find(data, end, idx)
    IN  IF idx0 < 0 \/ idx2 < 0 THEN data
        ELSE Slice(data, 0, idx)
             \o Join(Sorted(SetOf(Split(Slice(data, idx, idx2)))))
             \o Slice(data, idx2 + 1, Len(data))

\* The rewrite of one project file without set(): entries sorted, not collapsed.
vs_dedup_file_noset(data) ==
    LET idx0 == Find(data, start, 0)
        idx  == idx0 + Len(start)
        idx2 == Find(data, end, idx)
    IN  IF idx0 < 0 \/ idx2 < 0 THEN data
        ELSE Slice(data, 0, idx)
             \o Join(SortedList(Split(Slice(data, idx, idx2))))
             \o Slice(data, idx2, Len(data))

\* The body of the loop of vs_dedup on the content of one project file.
vs_dedup_file(data) ==
    LET idx0 == Find(data, start, 0)
        idx  == idx0 + Len(start)
        idx2 == Find(data, end, idx)
    IN  IF idx0 < 0 \/ idx2 < 0 THEN data
        ELSE Slice(data, 0, idx)
             \o Join(Sorted(SetOf(Split(Slice(data, idx, idx2)))))
             \o Slice(data, idx2, Len(data))

\* vs_dedup(builddir): every *.vcxproj under the build directory.
vs_dedup(fs) == [f \in DOMAIN fs |-> vs_dedup_file(fs[f])]

\* re.search('<PlatformToolset>(.*)</PlatformToolset>', text): the leftmost
\* opening tag that has a closing tag behind it on the same line ('.' does
\* not match a line break), and, '.*' being greedy, the last such closing tag.
Closers(c, i) ==
    {j \in (i + 1)..(Len(c) - 1) :
        c[j + 1] = "C" /\ \A k \in (i + 1)..(j - 1) : c[k + 1] # "\n"}

Openers(c) == {i \in 0..(Len(c) - 1) : c[i + 1] = "O" /\ Closers(c, i) # {}}

HasToolset(c) == Openers(c) # {}

\* .group(1) of the match.
Toolset(c) ==
    LET i == Min(Openers(c))
    IN  Slice(c, i + 1, Max(Closers(c, i)))

\* version.endswith('_xp')
EndsWithXp(version) == version # <<>> /\ version[Len(version)] = "x"

\* The test of line 128 written with startswith in place of endswith.
AlreadyXpStarts(version) == version # <<>> /\ version[1] = "x"

\* "if version.endswith('_xp')", line 128.
AlreadyXp(version) == EndsWithXp(version)

REGEN == "REGEN.vcxproj"

\* xp_compat(builddir): the files it leaves, the token it read and how it ended:
\*   "error"   open() or .group(1) raised (no REGEN.vcxproj, no toolset element)
\*   "skipped" the token already ends with '_xp'
\*   "patched" every project file rewritten
xp_compat(fs) ==
    IF REGEN \notin DOMAIN fs \/ ~HasToolset(fs[REGEN])
    THEN [files |-> fs, outcome |-> "error", version |-> <<>>]
    ELSE LET version    == Toolset(fs[REGEN])
             newversion == version \o <<"x">>
         IN  IF AlreadyXp(version)
             THEN [files |-> fs, outcome |-> "skipped", version |-> version]
             ELSE [files |-> [f \in DOMAIN fs |-> Replace(fs[f], version, newversion)],
                   outcome |-> "patched", version |-> version]

\* ------------------------------------------------------------ the run
UTIL == "libr/r_util.vcxproj"

BACKENDS == {"ninja", "vs2015", "vs2017"}

BUILDDIR == <<"build">>

\* What subprocess.call may return: 0, an error status, or minus a signal.
RetCodes == {-9, 0, 1, 2}

\* os.path.join(ROOT, args.dir, 'priv_install_dir'), line 277
PrivPrefix == "build/priv_install_dir"

\* The directory --install names on Windows: a directory of its own, or
\* the very path of the build directory.
InstallPath(a) == IF a.install = "build" THEN BUILDDIR ELSE <<"dist">>

\* args.install as a truth value (None, False and '' are false).
WantsInstall(a) == a.install # "none"

\* One entry of calls: what was called, with what, how it ended, and the
\* toolset token xp_compat logged.
Call(op, argv, result) ==
    [op |-> op, argv |-> argv, result |-> result, token |-> <<>>]

XpCall(r) ==
    [op |-> "xp_compat", argv |-> <<"build">>, result |-> r.outcome,
     token |-> r.version]

\* The checks of main() with the install path test left out.
BadArgumentsNoInstallTest(a, os, d) ==
    \/ a.project /\ a.backend = "ninja"
    \/ a.xp /\ a.backend = "ninja"

\* "Check arguments" of main(): the three tests that end in sys.exit(1).
BadArguments(a, os, d) ==
    \/ a.project /\ a.backend = "ninja"
    \/ a.xp /\ a.backend = "ninja"
    \/ os = "nt" /\ WantsInstall(a) /\ InstallPath(a) \in d

\* The generator called on every run.
NeedsMesonAlways(d) == TRUE

\* "if not os.path.exists(r2_builddir)" of build().
NeedsMeson(d) == BUILDDIR \notin d

\* ret != 0 read as ret > 0: a tool killed by a signal passes.
ToolFailedPositive(r) == r > 0

\* "if ret != 0" of meson(), ninja() and msbuild().
ToolFailed(r) == r # 0

\* The command line meson() builds.
MesonCommand(a, os) ==
    (IF os = "nt" THEN <<"python", "Scripts/meson.py">> ELSE <<"meson">>)
    \o <<"ROOT", "build">>
    \o (IF a.prefix # "" THEN <<"--prefix", a.prefix>> ELSE <<>>)
    \o <<"--backend", a.backend>>
    \o (IF a.release THEN <<"--buildtype=release">> ELSE <<>>)
    \o (IF a.shared THEN <<"--default-library=shared">>
                    ELSE <<"--default-library=static">>)

\* ninja() called as ninja(r2_builddir, 'all').
NinjaCommandAll == <<"ninja", "-C", "build", "all">>

\* The command line ninja(r2_builddir) builds: no targets.
NinjaCommand == <<"ninja", "-C", "build">>

\* The command line msbuild(project, '/m') builds.
MsbuildCommand == <<"msbuild", "build/radare2.sln", "/m">>

\* msbuild run whatever --project says.
AfterXpAlwaysBuild(a) == "msbuild"

\* Lines 220-222: the project is built unless --project was given.
AfterXp(a) == IF ~a.project THEN "msbuild" ELSE "install"

\* xp_compat run whatever --xp says.
AfterDedupAlwaysXp(a) == "xp_compat"

\* Lines 218-219: the toolset patch runs when --xp was given.
AfterDedup(a) == IF a.xp THEN "xp_compat" ELSE AfterXp(a)

\* Line 216: which way build() goes after the generator.
Dispatch(a) == IF a.backend # "ninja" THEN "vs_dedup" ELSE "ninja"

\* ------------------------------------------------- the Windows distribution
VER == <<"share", "radare2", "R2_VERSION">>

Mk(dst) == [op |-> "makedirs", src |-> "", dst |-> dst]

Cp(src, dst) == [op |-> "copy", src |-> src, dst |-> dst]

Tree(src, dst) == [op |-> "copytree", src |-> src, dst |-> dst]

TreeSources == {"ROOT/shlr/www", "ROOT/libr/magic/d/default", "ROOT/libr/cons/d"}

\* win_dist_libr2 with the magic directory made before the tree is copied.
win_dist_libr2_premade ==
    << Tree("ROOT/shlr/www", <<"www">>),
       Mk(VER \o <<"magic">>),
       Tree("ROOT/libr/magic/d/default", VER \o <<"magic">>),
       Mk(VER \o <<"syscall">>),
       Cp("BUILDDIR/libr/syscall/d/*.sdb", VER \o <<"syscall">>),
       Mk(VER \o <<"fcnsign">>),
       Cp("BUILDDIR/libr/anal/d/*.sdb", VER \o <<"fcnsign">>),
       Mk(VER \o <<"opcodes">>),
       Cp("BUILDDIR/libr/asm/d/*.sdb", VER \o <<"opcodes">>),
       Mk(<<"include", "libr", "sdb">>),
       Mk(<<"include", "libr", "r_util">>),
       Cp("ROOT/libr/include/*.h", <<"include", "libr">>),
       Cp("ROOT/libr/include/sdb/*.h", <<"include", "libr", "sdb">>),
       Cp("ROOT/libr/include/r_util/*.h", <<"include", "libr", "r_util">>),
       Mk(<<"share", "doc", "radare2">>),
       Cp("ROOT/doc/fortunes.*", <<"share", "doc", "radare2">>),
       Mk(VER \o <<"format", "dll">>),
       Cp("ROOT/libr/bin/d/elf32", VER \o <<"format">>),
       Cp("ROOT/libr/bin/d/elf64", VER \o <<"format">>),
       Cp("ROOT/libr/bin/d/elf_enums", VER \o <<"format">>),
       Cp("ROOT/libr/bin/d/pe32", VER \o <<"format">>),
       Cp("ROOT/libr/bin/d/trx", VER \o <<"format">>),
       Cp("BUILDDIR/libr/bin/d/*.sdb", VER \o <<"format", "dll">>),
       Tree("ROOT/libr/cons/d", VER \o <<"cons">>),
       Mk(VER \o <<"hud">>),
       Cp("ROOT/doc/hud", VER \o <<"hud", "main">>) >>

\* The staging calls of win_dist_libr2, in order; dst is relative to {DIST}.
win_dist_libr2 ==
    << Tree("ROOT/shlr/www", <<"www">>),
       Tree("ROOT/libr/magic/d/default", VER \o <<"magic">>),
       Mk(VER \o <<"syscall">>),
       Cp("BUILDDIR/libr/syscall/d/*.sdb", VER \o <<"syscall">>),
       Mk(VER \o <<"fcnsign">>),
       Cp("BUILDDIR/libr/anal/d/*.sdb", VER \o <<"fcnsign">>),
       Mk(VER \o <<"opcodes">>),
       Cp("BUILDDIR/libr/asm/d/*.sdb", VER \o <<"opcodes">>),
       Mk(<<"include", "libr", "sdb">>),
       Mk(<<"include", "libr", "r_util">>),
       Cp("ROOT/libr/include/*.h", <<"include", "libr">>),
       Cp("ROOT/libr/include/sdb/*.h", <<"include", "libr", "sdb">>),
       Cp("ROOT/libr/include/r_util/*.h", <<"include", "libr", "r_util">>),
       Mk(<<"share", "doc", "radare2">>),
       Cp("ROOT/doc/fortunes.*", <<"share", "doc", "radare2">>),
       Mk(VER \o <<"format", "dll">>),
       Cp("ROOT/libr/bin/d/elf32", VER \o <<"format">>),
       Cp("ROOT/libr/bin/d/elf64", VER \o <<"format">>),
       Cp("ROOT/libr/bin/d/elf_enums", VER \o <<"format">>),
       Cp("ROOT/libr/bin/d/pe32", VER \o <<"format">>),
       Cp("ROOT/libr/bin/d/trx", VER \o <<"format">>),
       Cp("BUILDDIR/libr/bin/d/*.sdb", VER \o <<"format", "dll">>),
       Tree("ROOT/libr/cons/d", VER \o <<"cons">>),
       Mk(VER \o <<"hud">>),
       Cp("ROOT/doc/hud", VER \o <<"hud", "main">>) >>

\* The staging calls of win_dist(args), in order.
win_dist(a) ==
    << Mk(<<>>),
       Cp("BUILDDIR/binr/**/*.exe", <<>>),
       Cp("BUILDDIR/libr/**/*.dll", <<>>) >>
    \o (IF a.copylib
        THEN << Cp("BUILDDIR/libr/**/*.lib", <<>>), Cp("BUILDDIR/libr/**/*.a", <<>>) >>
        ELSE <<>>)
    \o win_dist_libr2

\* Every directory on the way to path, path included.
Prefixes(path) == {SubSeq(path, 1, k) : k \in 1..Len(path)}

Parent(path) == SubSeq(path, 1, Len(path) - 1)

\* A path component that is a file blocks what lies below it.
Blocked(path, st) == \E q \in Prefixes(path) : q # path /\ q \in st

\* os.makedirs(path): the leaf must be new, the parents are made as needed.
makedirs(path, d, st) ==
    IF path \in d \/ path \in st \/ Blocked(path, st)
    THEN [ok |-> FALSE, dirs |-> d, staged |-> st]
    ELSE [ok |-> TRUE, dirs |-> d \cup Prefixes(path), staged |-> st]

\* shutil.copytree(src, dst): src must exist, dst must be new.
copytree(src, path, d, st, miss) ==
    IF src \in miss \/ path \in d \/ path \in st \/ Blocked(path, st)
    THEN [ok |-> FALSE, dirs |-> d, staged |-> st]
    ELSE [ok |-> TRUE, dirs |-> d \cup Prefixes(path), staged |-> st]

\* copy(src, dst): shutil.copy2 of every file the glob matches; into dst when
\* dst is a directory, else to a file named dst, whose directory must exist.
copy(path, d, st, matched) ==
    IF ~matched \/ path \in d THEN [ok |-> TRUE, dirs |-> d, staged |-> st]
    ELSE IF Parent(path) \in d THEN [ok |-> TRUE, dirs |-> d, staged |-> st \cup {path}]
    ELSE [ok |-> FALSE, dirs |-> d, staged |-> st]

\* One staging call s below the distribution directory dist.
Stage(s, dist, d, st, miss, matched) ==
    CASE s.op = "makedirs" -> makedirs(dist \o s.dst, d, st)
      [] s.op = "copytree" -> copytree(s.src, dist \o s.dst, d, st, miss)
      [] s.op = "copy"     -> copy(dist \o s.dst, d, st, matched)

\* ------------------------------------------------------------ initial states
NoFiles == [f \in {} |-> <<>>]

\* Project files a Visual Studio backend of the generator writes: one with a
\* toolset element and a dependency list, one without a toolset element.
Generated ==
    { [f \in {REGEN, UTIL} |->
          IF f = REGEN THEN <<"O", "v", "C">>
          ELSE <<"S", "w", ";", "v", ";", "w", ";", "P", "\n", "O", "v", "C">>],
      [f \in {REGEN, UTIL} |->
          IF f = REGEN THEN <<"v">> ELSE <<"S", "v", ";", "P">>] }

\* What an existing build directory may hold: generated files, files a former
\* run patched, a directory without REGEN.vcxproj, no project file at all.
Existing ==
    Generated \cup
    { [f \in {REGEN, UTIL} |->
          IF f = REGEN THEN <<"O", "v", "x", "C">>
          ELSE <<"S", "v", ";", "w", ";", "P", "\n", "O", "v", "x", "C">>],
      [f \in {UTIL} |-> <<"S", "v", ";", "v", ";", "P">>],
      NoFiles }

\* The namespaces parse_args() can return: --install is a path and --copylib
\* exists on Windows only; elsewhere --install is a flag.
Namespaces(os) ==
    { a \in [project : BOOLEAN, release : BOOLEAN, shared : BOOLEAN, xp : BOOLEAN,
             backend : BACKENDS, prefix : {"", "/usr"},
             install : {"none", "yes", "dist", "build"}, copylib : BOOLEAN] :
        IF os = "nt" THEN a.install # "yes"
        ELSE a.install \in {"none", "yes"} /\ ~a.copylib }

\* The state main() starts in.
Init ==
    /\ pc = "main"
    /\ os_name \in {"nt", "posix"}
    /\ args \in Namespaces(os_name)
    /\ dirs \in SUBSET {BUILDDIR, <<"dist">>}
    /\ fresh = (BUILDDIR \notin dirs)
    /\ files \in (IF fresh THEN {NoFiles} ELSE Existing)
    /\ missing \in {{}} \cup {{t} : t \in TreeSources}
    /\ calls = <<>>
    /\ status = -1
    /\ ret = -1
    /\ staged = {}
    /\ step = 0
    /\ runs = 0

\* ------------------------------------------------------------------ actions
Exit(code) == pc' = "exit" /\ status' = code

\* main(), "Check arguments": a bad combination ends the run with status 1.
RejectArguments ==
    /\ pc = "main"
    /\ BadArguments(args, os_name, dirs)
    /\ Exit(1)
    /\ UNCHANGED <<args, os_name, dirs, files, calls, ret, missing, staged, step,
                   fresh, runs>>

\* main(), lines 276-281: default the prefix on Windows, then build(args).
AcceptArguments ==
    /\ pc = "main"
    /\ ~BadArguments(args, os_name, dirs)
    /\ args' = IF os_name = "nt" /\ args.prefix = ""
               THEN [args EXCEPT !.prefix = PrivPrefix] ELSE args
    /\ pc' = "build"
    /\ UNCHANGED <<os_name, dirs, files, calls, status, ret, missing, staged, step,
                   fresh, runs>>

\* build(), lines 213-215 with meson(): the generator runs, makes the build
\* directory and its build files, and a non-zero status ends the run.
RunMeson ==
    /\ pc = "build"
    /\ NeedsMeson(dirs)
    /\ \E r \in RetCodes :
        /\ ret' = r
        /\ calls' = Append(calls, Call("meson", MesonCommand(args, os_name),
                                       IF ToolFailed(r) THEN "failed" ELSE "ok"))
        /\ IF ToolFailed(r)
           THEN /\ Exit(1)
                /\ UNCHANGED <<dirs, files>>
           ELSE /\ pc' = Dispatch(args)
                /\ dirs' = dirs \cup {BUILDDIR}
                /\ files' \in (IF args.backend = "ninja" THEN {NoFiles} ELSE Generated)
                /\ UNCHANGED status
    /\ UNCHANGED <<args, os_name, missing, staged, step, fresh, runs>>

\* build(), line 213 false: the build directory exists, no generator.
KeepBuildDir ==
    /\ pc = "build"
    /\ ~NeedsMeson(dirs)
    /\ pc' = Dispatch(args)
    /\ UNCHANGED <<args, os_name, dirs, files, calls, status, ret, missing, staged,
                   step, fresh, runs>>

\* build(), line 224 with ninja().
RunNinja ==
    /\ pc = "ninja"
    /\ \E r \in RetCodes :
        /\ ret' = r
        /\ calls' = Append(calls, Call("ninja", NinjaCommand,
                                       IF ToolFailed(r) THEN "failed" ELSE "ok"))
        /\ IF ToolFailed(r) THEN Exit(1)
           ELSE pc' = "install" /\ UNCHANGED status
    /\ UNCHANGED <<args, os_name, dirs, files, missing, staged, step, fresh, runs>>

\* build(), line 217 with vs_dedup().
RunVsDedup ==
    /\ pc = "vs_dedup"
    /\ files' = vs_dedup(files)
    /\ calls' = Append(calls, Call("vs_dedup", <<"build">>, "ok"))
    /\ pc' = AfterDedup(args)
    /\ UNCHANGED <<args, os_name, dirs, status, ret, missing, staged, step, fresh,
                   runs>>

\* build(), lines 218-219 with xp_compat(); what it raises ends the run.
RunXpCompat ==
    /\ pc = "xp_compat"
    /\ LET r == xp_compat(files)
       IN  /\ files' = r.files
           /\ calls' = Append(calls, XpCall(r))
           /\ IF r.outcome = "error" THEN Exit(1)
              ELSE pc' = AfterXp(args) /\ UNCHANGED status
    /\ UNCHANGED <<args, os_name, dirs, ret, missing, staged, step, fresh, runs>>

\* build(), lines 220-222 with msbuild().
RunMsbuild ==
    /\ pc = "msbuild"
    /\ \E r \in RetCodes :
        /\ ret' = r
        /\ calls' = Append(calls, Call("msbuild", MsbuildCommand,
                                       IF ToolFailed(r) THEN "failed" ELSE "ok"))
        /\ IF ToolFailed(r) THEN Exit(1)
           ELSE pc' = "install" /\ UNCHANGED status
    /\ UNCHANGED <<args, os_name, dirs, files, missing, staged, step, fresh, runs>>

\* main(), line 282 false: nothing to install, the run ends well.
NoInstall ==
    /\ pc = "install"
    /\ ~WantsInstall(args)
    /\ pc' = "done"
    /\ status' = 0
    /\ UNCHANGED <<args, os_name, dirs, files, calls, ret, missing, staged, step,
                   fresh, runs>>

\* install() off Windows: a warning, nothing installed.
InstallNotImplemented ==
    /\ pc = "install"
    /\ WantsInstall(args)
    /\ os_name # "nt"
    /\ pc' = "done"
    /\ status' = 0
    /\ UNCHANGED <<args, os_name, dirs, files, calls, ret, missing, staged, step,
                   fresh, runs>>

\* install() on Windows: win_dist(args) begins.
BeginWinDist ==
    /\ pc = "install"
    /\ WantsInstall(args)
    /\ os_name = "nt"
    /\ pc' = "win_dist"
    /\ step' = 1
    /\ UNCHANGED <<args, os_name, dirs, files, calls, status, ret, missing, staged,
                   fresh, runs>>

\* The next staging call of win_dist(); what it raises ends the run, the last
\* one ends it well.
StageNext ==
    /\ pc = "win_dist"
    /\ \E matched \in BOOLEAN :
        LET s == win_dist(args)[step]
            r == Stage(s, InstallPath(args), dirs, staged, missing, matched)
        IN  /\ calls' = Append(calls, Call(s.op, InstallPath(args) \o s.dst,
                                           IF r.ok THEN "ok" ELSE "error"))
            /\ dirs' = r.dirs
            /\ staged' = r.staged
            /\ IF ~r.ok THEN Exit(1) /\ UNCHANGED step
               ELSE IF step = Len(win_dist(args))
               THEN pc' = "done" /\ status' = 0 /\ UNCHANGED step
               ELSE pc' = pc /\ step' = step + 1 /\ UNCHANGED status
    /\ UNCHANGED <<args, os_name, files, ret, missing, fresh, runs>>

Next ==
    \/ RejectArguments
    \/ AcceptArguments
    \/ RunMeson
    \/ KeepBuildDir
    \/ RunNinja
    \/ RunVsDedup
    \/ RunXpCompat
    \/ RunMsbuild
    \/ NoInstall
    \/ InstallNotImplemented
    \/ BeginWinDist
    \/ StageNext

Spec == Init /\ [][Next]_vars

\* ------------------------------------------- the post-processors on their own
DedupTokens == {"S", ";", "P", "v", "w"}

XpTokens == {"O", "C", "v", "x", "\n"}

\* A namespace for the runs that only post-process a build directory.
ApiArgs ==
    [project |-> FALSE, release |-> FALSE, shared |-> FALSE, xp |-> TRUE,
     backend |-> "vs2015", prefix |-> "", install |-> "none", copylib |-> FALSE]

Idle ==
    /\ os_name = "nt"
    /\ args = ApiArgs
    /\ dirs = {BUILDDIR}
    /\ fresh = FALSE
    /\ missing = {}
    /\ calls = <<>>
    /\ status = -1
    /\ ret = -1
    /\ staged = {}
    /\ step = 0
    /\ runs = 0

\* vs_dedup() on a build directory that holds any one project file.
InitDedup ==
    /\ Idle
    /\ pc = "vs_dedup"
    /\ files \in {[f \in {UTIL} |-> c] : c \in SeqsUpTo(DedupTokens, MaxLen)}

\* One more call of vs_dedup(builddir).
AgainVsDedup ==
    /\ pc = "vs_dedup"
    /\ runs < MaxRuns
    /\ files' = vs_dedup(files)
    /\ runs' = runs + 1
    /\ UNCHANGED <<pc, args, os_name, dirs, calls, status, ret, missing, staged,
                   step, fresh>>

NextDedup == AgainVsDedup

SpecDedup == InitDedup /\ [][NextDedup]_vars

\* xp_compat() on a build directory with any REGEN.vcxproj and one more
\* project file.
InitXp ==
    /\ Idle
    /\ pc = "xp_compat"
    /\ \E c \in SeqsUpTo(XpTokens, MaxXpLen) :
       \E u \in {<<"v">>, <<"O", "v", "C", "v", "x">>} :
          files = [f \in {REGEN, UTIL} |-> IF f = REGEN THEN c ELSE u]

\* One more call of xp_compat(builddir); what it raises ends the run.
AgainXpCompat ==
    /\ pc = "xp_compat"
    /\ runs < MaxRuns
    /\ LET r == xp_compat(files)
       IN  /\ files' = r.files
           /\ calls' = Append(calls, XpCall(r))
           /\ IF r.outcome = "error" THEN Exit(1)
              ELSE UNCHANGED <<pc, status>>
    /\ runs' = runs + 1
    /\ UNCHANGED <<args, os_name, dirs, ret, missing, staged, step, fresh>>

NextXp == AgainXpCompat

SpecXp == InitXp /\ [][NextXp]_vars

\* ------------------------------------------------------------ observations
IsBuildCall(c) == c.op \in {"meson", "ninja", "vs_dedup", "xp_compat", "msbuild"}

IsDispatchCall(c) == c.op \in {"ninja", "vs_dedup", "xp_compat", "msbuild"}

IsToolCall(c) == c.op \in {"meson", "ninja", "msbuild"}

\* The calls build() made, in order, and the ones made after the generator.
BuildCalls == SelectSeq(calls, IsBuildCall)

DispatchCalls == SelectSeq(calls, IsDispatchCall)

Ops(cs) == [i \in 1..Len(cs) |-> cs[i].op]

IsPrefix(a, b) == Len(a) <= Len(b) /\ a = SubSeq(b, 1, Len(a))

Last(cs) == cs[Len(cs)]

\* main() ended in "Check arguments".
Rejected == pc = "exit" /\ calls = <<>>

\* build() was entered.
BuildStarted == pc # "main" /\ ~Rejected

\* build() returned to main().
BuildReturned ==
    \/ pc \in {"install", "win_dist", "done"}
    \/ pc = "exit" /\ calls # <<>> /\ ~IsBuildCall(Last(calls))

\* build() was cut short: the last thing it called failed and ended the run.
BuildCutShort ==
    /\ pc = "exit"
    /\ status = 1
    /\ calls # <<>>
    /\ IsBuildCall(Last(calls))
    /\ Last(calls).result \in {"failed", "error"}

\* ------------------------------------------------------------------ claims

\* C1: if the build directory exists when build() starts, meson is never
\* invoked during the run; meson is invoked only when the directory is absent
\* (and then once).
C1_GeneratorOnlyWhenAbsent ==
    /\ \A i \in 1..Len(calls) : calls[i].op = "meson" => fresh
    /\ Cardinality({i \in 1..Len(calls) : calls[i].op = "meson"}) <= 1

C1_Witness ==
    /\ ~fresh
    /\ pc = "done"
    /\ Ops(BuildCalls) = <<"vs_dedup", "xp_compat", "msbuild">>

\* C2: with --project or --xp and the ninja backend, or on Windows with an
\* install path that exists, the first step of main() ends the run with
\* status 1 and nothing was called, rewritten or staged; nothing follows an
\* exit.
C2_ValidationFirst ==
    /\ [][ (/\ pc = "main"
            /\ \/ args.project /\ args.backend = "ninja"
               \/ args.xp /\ args.backend = "ninja"
               \/ os_name = "nt" /\ args.install \in {"dist", "build"}
                                 /\ InstallPath(args) \in dirs)
           => /\ pc' = "exit"
              /\ status' = 1
              /\ calls' = <<>>
              /\ UNCHANGED <<dirs, files, staged, step>> ]_vars
    /\ [][pc # "exit"]_vars

C2_Witness ==
    /\ Rejected
    /\ status = 1
    /\ os_name = "nt"
    /\ ~args.project /\ ~args.xp
    /\ InstallPath(args) \in dirs

\* C3: with a build directory that was absent and the ninja backend, build()
\* calls meson and then ninja -C build without targets, once each, and
\* nothing else; only a failing tool, which ends the run, cuts this short.
C3_DefaultBackendEndToEnd ==
    (fresh /\ args.backend = "ninja" /\ BuildStarted) =>
        /\ IsPrefix(Ops(BuildCalls), <<"meson", "ninja">>)
        /\ \A i \in 1..Len(calls) :
              calls[i].op = "ninja" => calls[i].argv = <<"ninja", "-C", "build">>
        /\ BuildReturned => Ops(BuildCalls) = <<"meson", "ninja">>
        /\ (pc = "exit" /\ ~BuildReturned) => BuildCutShort
        /\ pc \in {"build", "ninja"} \/ BuildReturned \/ BuildCutShort

C3_Witness ==
    /\ fresh
    /\ args.backend = "ninja"
    /\ pc = "done"
    /\ Len(calls) = 2
    /\ calls[1].op = "meson"
    /\ calls[2] = Call("ninja", <<"ninja", "-C", "build">>, "ok")

\* C4 as stated: with --backend vs2015 --project, build() calls meson, then
\* vs_dedup, and never msbuild.
C4_Original ==
    (args.backend = "vs2015" /\ args.project /\ BuildReturned) =>
        /\ Len(BuildCalls) >= 2
        /\ BuildCalls[1].op = "meson"
        /\ BuildCalls[2].op = "vs_dedup"
        /\ \A i \in 1..Len(calls) : calls[i].op # "msbuild"

\* C4 amended: with --backend vs2015 --project, build() never calls msbuild;
\* it calls meson and then vs_dedup when the build directory was absent, and
\* vs_dedup alone, without meson, when the directory existed (xp_compat
\* follows with --xp).
C4_ProjectOnlyEndToEnd ==
    (args.backend = "vs2015" /\ args.project /\ BuildStarted) =>
        LET want == (IF fresh THEN <<"meson">> ELSE <<>>) \o <<"vs_dedup">>
                    \o (IF args.xp THEN <<"xp_compat">> ELSE <<>>)
        IN  /\ \A i \in 1..Len(calls) : calls[i].op # "msbuild"
            /\ IsPrefix(Ops(BuildCalls), want)
            /\ BuildReturned => Ops(BuildCalls) = want
            /\ (pc = "exit" /\ ~BuildReturned) => BuildCutShort

C4_Witness ==
    /\ fresh
    /\ args.backend = "vs2015"
    /\ args.project
    /\ pc = "done"
    /\ Ops(calls) = <<"meson", "vs_dedup">>

\* C5: a second vs_dedup leaves every project file as the first one left it.
C5_DedupIdempotent == [][runs >= 1 => files' = files]_vars

C5_Witness ==
    /\ pc = "vs_dedup"
    /\ runs = 2
    /\ files[UTIL] = <<"S", ";", "P", ";", "v", ";", "P">>

\* C6: for a file with the start marker and the end marker behind it,
\* vs_dedup keeps the text up to the list and from the end marker on, and the
\* list it writes between them holds the entries of the old list, each once,
\* in ascending order, and no other entry.
C6_DedupKeepsEntries ==
    [][ \A f \in DOMAIN files :
          LET old == files[f]
              i0  == Find(old, <<"S">>, 0)
              i2  == Find(old, <<";", "P">>, i0 + 1)
              new == files'[f]
              cut == Len(new) - (Len(old) - i2)
              lst == Split(Slice(new, i0 + 1, cut))
          IN  (i0 >= 0 /\ i2 >= 0) =>
                /\ cut >= i0 + 1
                /\ Slice(new, 0, i0 + 1) = Slice(old, 0, i0 + 1)
                /\ Slice(new, cut, Len(new)) = Slice(old, i2, Len(old))
                /\ \A k \in 1..(Len(lst) - 1) : LexLess(lst[k], lst[k + 1])
                /\ SetOf(lst) = SetOf(Split(Slice(old, i0 + 1, i2))) ]_vars

C6_Witness ==
    /\ pc = "vs_dedup"
    /\ runs = 1
    /\ files[UTIL] = <<"S", ";", "v", ";", "w", ";", "P">>

\* C7 as stated: xp_compat writes nothing when the token read ends with
\* '_xp', and so a second xp_compat after one that patched changes no file.
C7_Original ==
    [][ /\ (/\ REGEN \in DOMAIN files
            /\ HasToolset(files[REGEN])
            /\ EndsWithXp(Toolset(files[REGEN]))) => files' = files
        /\ (runs >= 1 /\ Last(calls).result = "patched") => files' = files ]_vars

\* C7 amended: xp_compat writes nothing when the token read ends with '_xp';
\* a second xp_compat after one that patched changes no file when the token
\* the first one read holds no tag (no '<' or '>').
C7_XpCompatIdempotent ==
    [][ /\ (/\ REGEN \in DOMAIN files
            /\ HasToolset(files[REGEN])
            /\ EndsWithXp(Toolset(files[REGEN]))) => files' = files
        /\ (/\ runs >= 1
            /\ Last(calls).result = "patched"
            /\ \A k \in 1..Len(Last(calls).token) :
                  Last(calls).token[k] \notin {"O", "C", "J"}) => files' = files ]_vars

C7_Witness ==
    /\ pc = "xp_compat"
    /\ runs = 2
    /\ calls[1].result = "patched"
    /\ calls[1].token = <<"v">>
    /\ calls[2].result = "skipped"
    /\ calls[2].token = <<"v", "x">>
    /\ files[UTIL] = <<"O", "v", "x", "C", "v", "x", "x">>

\* C8: after a tool returned a non-zero status the run is over with status 1,
\* the failed call is the last call made, and no step follows an exit.
C8_ToolFailureFatal ==
    /\ [](ret \notin {-1, 0} =>
            /\ pc = "exit"
            /\ status = 1
            /\ IsToolCall(Last(calls))
            /\ Last(calls).result = "failed")
    /\ [][ /\ pc # "exit"
           /\ (ret' \notin {-1, 0} /\ calls' # calls) =>
                 (pc' = "exit" /\ status' = 1 /\ UNCHANGED <<dirs, files, staged, step>>)
         ]_vars

C8_Witness ==
    /\ pc = "exit"
    /\ status = 1
    /\ ret = -9
    /\ Ops(calls) = <<"meson", "vs_dedup", "xp_compat", "msbuild">>

\* C9: after the generator, a backend other than ninja gets vs_dedup, then
\* xp_compat exactly with --xp, then msbuild build/radare2.sln /m exactly
\* without --project, in this order and never ninja; the ninja backend gets
\* ninja -C build alone.  Only a call that fails and ends the run cuts the
\* sequence short.
C9_DispatchOrder ==
    BuildStarted =>
        LET want == IF args.backend = "ninja" THEN <<"ninja">>
                    ELSE <<"vs_dedup">>
                         \o (IF args.xp THEN <<"xp_compat">> ELSE <<>>)
                         \o (IF ~args.project THEN <<"msbuild">> ELSE <<>>)
        IN  /\ IsPrefix(Ops(DispatchCalls), want)
            /\ BuildReturned => Ops(DispatchCalls) = want
            /\ (pc = "exit" /\ ~BuildReturned) => BuildCutShort
            /\ \A i \in 1..Len(calls) :
                  /\ calls[i].op = "msbuild" =>
                        calls[i].argv = <<"msbuild", "build/radare2.sln", "/m">>
                  /\ calls[i].op = "ninja" =>
                        calls[i].argv = <<"ninja", "-C", "build">>
                  /\ calls[i].op \in {"vs_dedup", "xp_compat"} =>
                        calls[i].argv = <<"build">>

C9_Witness ==
    /\ args.backend = "vs2017"
    /\ args.xp
    /\ ~args.project
    /\ pc = "done"
    /\ Ops(DispatchCalls) = <<"vs_dedup", "xp_compat", "msbuild">>

\* C10: when win_dist starts without the install directory and no copytree
\* source is missing, every makedirs and copytree finds its target new, every
\* copy finds the directory it writes to, and no staging call fails.
C10_DistNeverCollides ==
    /\ []( (/\ pc = "win_dist"
            /\ missing = {}
            /\ step = 1 => InstallPath(args) \notin dirs) =>
             LET s == win_dist(args)[step]
                 p == InstallPath(args) \o s.dst
             IN  /\ s.op \in {"makedirs", "copytree"} =>
                       p \notin dirs /\ p \notin staged
                 /\ s.op = "copytree" => s.src \notin missing
                 /\ s.op = "copy" => p \in dirs \/ Parent(p) \in dirs )
    /\ [][ (/\ pc = "win_dist"
            /\ missing = {}
            /\ step = 1 => InstallPath(args) \notin dirs) => pc' # "exit" ]_vars

C10_Witness ==
    /\ pc = "done"
    /\ args.copylib
    /\ missing = {}
    /\ step = Len(win_dist(args))
    /\ <<"dist">> \o VER \o <<"hud", "main">> \in staged
    /\ <<"dist">> \o VER \o <<"cons">> \in dirs

====
